---- MODULE Spec2Model ----
(***************************************************************************)
(* SMBIOS type 0 (BIOS Information): the decoder NewBIOSInformation, the   *)
(* size routine GetROMSizeBytes, the summary String and the three flag     *)
(* renderers of pkg/smbios/type0_bios_information.go.                      *)
(*                                                                         *)
(* Representation of Go's integers (TLC's integers are 32-bit):            *)
(*   - a uint8 / uint16 is a natural number below 2^8 / 2^16;              *)
(*   - the uint64 BIOSCharacteristics is the tuple of its 8 little-endian  *)
(*     bytes, as they sit at offset 0Ah of the table;                      *)
(*   - a Go uint (the byte count of GetROMSizeBytes) is a pair             *)
(*     [hi, lo] standing for hi * 2^20 + lo with lo < 2^20, reduced        *)
(*     modulo 2^uintBits, where uintBits is the width of uint in the       *)
(*     build (32 or 64, Go leaves it to the target).                       *)
(*                                                                         *)
(* The source's hexadecimal numbers are written in decimal: 0x12 = 18,     *)
(* 0x16 = 22, 0x18 = 24, 0x1a = 26, 0xff = 255, 0x3fff = 16383,            *)
(* 1 << 14 = 16384, 0x10000 = 65536.                                       *)
(*                                                                         *)
(* parseStruct, Table.Len, the Table accessors and Header.String are not   *)
(* in this file of the package: they follow the layout and the length      *)
(* gating of the format (a field is read when it lies within the declared  *)
(* length and keeps Go's zero value otherwise).                            *)
(***************************************************************************)
EXTENDS Integers, Sequences, FiniteSets, TLC

VARIABLES
    uintBits,   \* width of Go's uint in this build: 32 or 64
    t,          \* the raw Table handed to the decoder
    pc,         \* "init" | "decoded" | "failed" | "literal"
    bi,         \* the *BIOSInformation (NoRecord: nil)
    err,        \* the error of NewBIOSInformation ("" : nil)
    ret         \* the last method call on bi and what it returned

vars == <<uintBits, t, pc, bi, err, ret>>

----------------------------------------------------------------------------
(* Bounds of the model.                                                    *)

\* Declared table lengths range over MinLength..MaxLength.
MinLength == 16
MaxLength == 27

----------------------------------------------------------------------------
(* Integer helpers.                                                        *)

RECURSIVE Pow2(_)
Pow2(n) == IF n = 0 THEN 1 ELSE 2 * Pow2(n - 1)

\* v & (1 << k) != 0, for a uint8 / uint16 v
BitSet(v, k) == (v \div Pow2(k)) % 2 = 1

\* v & (1 << k) != 0, for a uint64 v held as its 8 little-endian bytes
BitSet64(v, k) == BitSet(v[(k \div 8) + 1], k % 8)

Mega == 1024 * 1024

\* A Go uint below 2^31 as the pair [hi, lo]
ToUint(n) == [hi |-> n \div Mega, lo |-> n % Mega]

\* Reduction modulo 2^w of a [hi, lo] pair with hi < 2^24: a 32-bit uint
\* keeps the low 12 bits of hi, a 64-bit uint keeps all of it.
WrapUint(x, w) == [hi |-> IF w = 32 THEN x.hi % 4096 ELSE x.hi, lo |-> x.lo]

\* a * m as a uint of w bits, for a < 2^14 and m = mh * 2^20 + ml, ml <= 1
MulUint(a, m, w) ==
    LET p  == a * (m % Mega)
        hi == a * (m \div Mega) + (p \div Mega)
    IN  WrapUint([hi |-> hi, lo |-> p % Mega], w)

----------------------------------------------------------------------------
(* fmt verbs.                                                              *)

Digits == <<"0", "1", "2", "3", "4", "5", "6", "7", "8", "9",
            "A", "B", "C", "D", "E", "F">>

\* %d of a non-negative integer
RECURSIVE FmtD(_)
FmtD(n) == IF n < 10 THEN Digits[n + 1]
           ELSE FmtD(n \div 10) \o Digits[(n % 10) + 1]

\* %04X of a uint16
FmtX4(n) == Digits[((n \div 4096) % 16) + 1] \o Digits[((n \div 256) % 16) + 1]
            \o Digits[((n \div 16) % 16) + 1] \o Digits[(n % 16) + 1]

\* strings.Join(lines, sep)
RECURSIVE Join(_, _)
Join(lines, sep) ==
    IF lines = <<>> THEN ""
    ELSE IF Len(lines) = 1 THEN lines[1]
    ELSE lines[1] \o sep \o Join(Tail(lines), sep)

----------------------------------------------------------------------------
(* The raw table.                                                          *)

TableTypeBIOSInformation == 0

NoRecord == [nil |-> TRUE]

\* Table.Len(): the declared length of the structured part
TableLen(tbl) == tbl.Length

\* the byte / little-endian word / 8 bytes at an offset of the table
GetByteAt(tbl, off) == tbl.data[off]
GetWordAt(tbl, off) == tbl.data[off] + 256 * tbl.data[off + 1]
GetQWordAt(tbl, off) == [i \in 1..8 |-> tbl.data[off + i - 1]]

\* the string pool's text for an index (0: no string)
GetStringAt(tbl, off) ==
    LET i == tbl.data[off]
    IN  IF i \in 1..Len(tbl.strings) THEN tbl.strings[i] ELSE ""

\* Header.String()
HeaderString(tbl) ==
    "Handle 0x" \o FmtX4(tbl.Handle) \o ", DMI type " \o FmtD(tbl.Type)
    \o ", " \o FmtD(tbl.Length) \o " bytes"

\* The zero value of the fields, as &BIOSInformation{Table: *t} leaves them
ZeroRecord(tbl) ==
    [Table                                  |-> tbl,
     Vendor                                 |-> "",
     Version                                |-> "",
     StartingAddressSegment                 |-> 0,
     ReleaseDate                            |-> "",
     ROMSize                                |-> 0,
     Characteristics                        |-> [i \in 1..8 |-> 0],
     CharacteristicsExt1                    |-> 0,
     CharacteristicsExt2                    |-> 0,
     SystemBIOSMajorRelease                 |-> 0,
     SystemBIOSMinorRelease                 |-> 0,
     EmbeddedControllerFirmwareMajorRelease |-> 0,
     EmbeddedControllerFirmwareMinorRelease |-> 0,
     ExtendedROMSize                        |-> 0]

\* A field of `width` bytes at `off` is read when it lies within the declared
\* length, and keeps its zero value otherwise.
Present(tbl, off, width) == off + width <= TableLen(tbl)

\* parseStruct(t, 0, false, bi): the fields at their offsets
parseStruct(tbl, rec) ==
    LET rd(off, width, val, zero) == IF Present(tbl, off, width) THEN val ELSE zero
    IN  [rec EXCEPT
          !.Vendor                 = rd(4, 1, GetStringAt(tbl, 4), @),
          !.Version                = rd(5, 1, GetStringAt(tbl, 5), @),
          !.StartingAddressSegment = rd(6, 2, GetWordAt(tbl, 6), @),
          !.ReleaseDate            = rd(8, 1, GetStringAt(tbl, 8), @),
          !.ROMSize                = rd(9, 1, GetByteAt(tbl, 9), @),
          !.Characteristics        = rd(10, 8, GetQWordAt(tbl, 10), @),
          !.CharacteristicsExt1    = rd(18, 1, GetByteAt(tbl, 18), @),
          !.CharacteristicsExt2    = rd(19, 1, GetByteAt(tbl, 19), @),
          !.SystemBIOSMajorRelease = rd(20, 1, GetByteAt(tbl, 20), @),
          !.SystemBIOSMinorRelease = rd(21, 1, GetByteAt(tbl, 21), @),
          !.EmbeddedControllerFirmwareMajorRelease = rd(22, 1, GetByteAt(tbl, 22), @),
          !.EmbeddedControllerFirmwareMinorRelease = rd(23, 1, GetByteAt(tbl, 23), @),
          !.ExtendedROMSize        = rd(24, 2, GetWordAt(tbl, 24), @)]

----------------------------------------------------------------------------
(* NewBIOSInformation.                                                     *)

\* the two checks with the length limit one byte short
NewBIOSInformation_ShortLimit(tbl) ==
    IF tbl.Type # TableTypeBIOSInformation
    THEN [bi |-> NoRecord, err |-> "invalid table type " \o FmtD(tbl.Type)]
    ELSE IF TableLen(tbl) < 17
    THEN [bi |-> NoRecord, err |-> "required fields missing"]
    ELSE [bi |-> parseStruct(tbl, ZeroRecord(tbl)), err |-> ""]

\* the two checks in the other order
NewBIOSInformation_LengthFirst(tbl) ==
    IF TableLen(tbl) < 18
    THEN [bi |-> NoRecord, err |-> "required fields missing"]
    ELSE IF tbl.Type # TableTypeBIOSInformation
    THEN [bi |-> NoRecord, err |-> "invalid table type " \o FmtD(tbl.Type)]
    ELSE [bi |-> parseStruct(tbl, ZeroRecord(tbl)), err |-> ""]

\* NewBIOSInformation(t): the pair (bi, err) it returns
NewBIOSInformation(tbl) ==
    IF tbl.Type # TableTypeBIOSInformation
    THEN [bi |-> NoRecord, err |-> "invalid table type " \o FmtD(tbl.Type)]
    ELSE IF TableLen(tbl) < 18
    THEN [bi |-> NoRecord, err |-> "required fields missing"]
    ELSE [bi |-> parseStruct(tbl, ZeroRecord(tbl)), err |-> ""]

----------------------------------------------------------------------------
(* GetROMSizeBytes.                                                        *)

\* the legacy encoding without the + 1
GetROMSizeBytes_NoPlusOne(rec, w) ==
    IF rec.ROMSize # 255
    THEN WrapUint(ToUint(65536 * rec.ROMSize), w)
    ELSE LET extSize == IF TableLen(rec.Table) >= 26
                        THEN rec.ExtendedROMSize ELSE 16
             unit == extSize \div 16384
             multiplier == CASE unit = 0 -> 1024 * 1024
                             [] unit = 1 -> 1024 * 1024 * 1024
                             [] OTHER    -> 1
         IN  MulUint(extSize % 16384, multiplier, w)

\* the extended field used whatever the length
GetROMSizeBytes_NoLenCheck(rec, w) ==
    IF rec.ROMSize # 255
    THEN WrapUint(ToUint(65536 * (rec.ROMSize + 1)), w)
    ELSE LET extSize == rec.ExtendedROMSize
             unit == extSize \div 16384
             multiplier == CASE unit = 0 -> 1024 * 1024
                             [] unit = 1 -> 1024 * 1024 * 1024
                             [] OTHER    -> 1
         IN  MulUint(extSize % 16384, multiplier, w)

\* the length threshold one byte low
GetROMSizeBytes_Threshold19(rec, w) ==
    IF rec.ROMSize # 255
    THEN WrapUint(ToUint(65536 * (rec.ROMSize + 1)), w)
    ELSE LET extSize == IF TableLen(rec.Table) >= 25
                        THEN rec.ExtendedROMSize ELSE 16
             unit == extSize \div 16384
             multiplier == CASE unit = 0 -> 1024 * 1024
                             [] unit = 1 -> 1024 * 1024 * 1024
                             [] OTHER    -> 1
         IN  MulUint(extSize % 16384, multiplier, w)

\* bi.GetROMSizeBytes() in a build whose uint has w bits
GetROMSizeBytes(rec, w) ==
    IF rec.ROMSize # 255
    THEN WrapUint(ToUint(65536 * (rec.ROMSize + 1)), w)
    ELSE LET extSize == IF TableLen(rec.Table) >= 26
                        THEN rec.ExtendedROMSize ELSE 16
             unit == extSize \div 16384
             multiplier == CASE unit = 0 -> 1024 * 1024
                             [] unit = 1 -> 1024 * 1024 * 1024
                             [] OTHER    -> 1
         IN  MulUint(extSize % 16384, multiplier, w)

----------------------------------------------------------------------------
(* The flag renderers.                                                     *)

\* if cond { lines = append(lines, s) }
AppendIf(cond, s) == IF cond THEN <<s>> ELSE <<>>

BIOSCharacteristicsLines(v) ==
    AppendIf(BitSet64(v, 0), "\t\tReserved")
    \o AppendIf(BitSet64(v, 1), "\t\tReserved")
    \o AppendIf(BitSet64(v, 2), "\t\tUnknown")
    \o AppendIf(BitSet64(v, 3), "\t\tBIOS characteristics not supported")
    \o AppendIf(BitSet64(v, 4), "\t\tISA is supported")
    \o AppendIf(BitSet64(v, 5), "\t\tMCA is supported")
    \o AppendIf(BitSet64(v, 6), "\t\tEISA is supported")
    \o AppendIf(BitSet64(v, 7), "\t\tPCI is supported")
    \o AppendIf(BitSet64(v, 8), "\t\tPC Card (PCMCIA) is supported")
    \o AppendIf(BitSet64(v, 9), "\t\tPNP is supported")
    \o AppendIf(BitSet64(v, 10), "\t\tAPM is supported")
    \o AppendIf(BitSet64(v, 11), "\t\tBIOS is upgradeable")
    \o AppendIf(BitSet64(v, 12), "\t\tBIOS shadowing is allowed")
    \o AppendIf(BitSet64(v, 13), "\t\tVLB is supported")
    \o AppendIf(BitSet64(v, 14), "\t\tESCD support is available")
    \o AppendIf(BitSet64(v, 15), "\t\tBoot from CD is supported")
    \o AppendIf(BitSet64(v, 16), "\t\tSelectable boot is supported")
    \o AppendIf(BitSet64(v, 17), "\t\tBIOS ROM is socketed")
    \o AppendIf(BitSet64(v, 18), "\t\tBoot from PC Card (PCMCIA) is supported")
    \o AppendIf(BitSet64(v, 19), "\t\tEDD is supported")
    \o AppendIf(BitSet64(v, 20), "\t\tJapanese floppy for NEC 9800 1.2 MB is supported (int 13h)")
    \o AppendIf(BitSet64(v, 21), "\t\tJapanese floppy for Toshiba 1.2 MB is supported (int 13h)")
    \o AppendIf(BitSet64(v, 22), "\t\t5.25\"/360 kB floppy services are supported (int 13h)")
    \o AppendIf(BitSet64(v, 23), "\t\t5.25\"/1.2 MB floppy services are supported (int 13h)")
    \o AppendIf(BitSet64(v, 24), "\t\t3.5\"/720 kB floppy services are supported (int 13h)")
    \o AppendIf(BitSet64(v, 25), "\t\t3.5\"/2.88 MB floppy services are supported (int 13h)")
    \o AppendIf(BitSet64(v, 26), "\t\tPrint screen service is supported (int 5h)")
    \o AppendIf(BitSet64(v, 27), "\t\t8042 keyboard services are supported (int 9h)")
    \o AppendIf(BitSet64(v, 28), "\t\tSerial services are supported (int 14h)")
    \o AppendIf(BitSet64(v, 29), "\t\tPrinter services are supported (int 17h)")
    \o AppendIf(BitSet64(v, 30), "\t\tCGA/mono video services are supported (int 10h)")
    \o AppendIf(BitSet64(v, 31), "\t\tNEC PC-98")

\* BIOSCharacteristics.String()
BIOSCharacteristicsString(v) == Join(BIOSCharacteristicsLines(v), "\n")

BIOSCharacteristicsExt1Lines(v) ==
    AppendIf(BitSet(v, 0), "\t\tACPI is supported")
    \o AppendIf(BitSet(v, 1), "\t\tUSB legacy is supported")
    \o AppendIf(BitSet(v, 2), "\t\tAGP is supported")
    \o AppendIf(BitSet(v, 3), "\t\tI2O boot is supported")
    \o AppendIf(BitSet(v, 4), "\t\tLS-120 boot is supported")
    \o AppendIf(BitSet(v, 5), "\t\tATAPI Zip drive boot is supported")
    \o AppendIf(BitSet(v, 6), "\t\tIEEE 1394 boot is supported")
    \o AppendIf(BitSet(v, 7), "\t\tSmart battery is supported")

\* BIOSCharacteristicsExt1.String()
BIOSCharacteristicsExt1String(v) == Join(BIOSCharacteristicsExt1Lines(v), "\n")

\* the last test made with 1 << 5, a bit the table does not define
BIOSCharacteristicsExt2Lines_WrongMask(v) ==
    AppendIf(BitSet(v, 0), "\t\tBIOS boot specification is supported")
    \o AppendIf(BitSet(v, 1), "\t\tFunction key-initiated network boot is supported")
    \o AppendIf(BitSet(v, 2), "\t\tTargeted content distribution is supported")
    \o AppendIf(BitSet(v, 3), "\t\tUEFI is supported")
    \o AppendIf(BitSet(v, 5), "\t\tSystem is a virtual machine")

BIOSCharacteristicsExt2Lines(v) ==
    AppendIf(BitSet(v, 0), "\t\tBIOS boot specification is supported")
    \o AppendIf(BitSet(v, 1), "\t\tFunction key-initiated network boot is supported")
    \o AppendIf(BitSet(v, 2), "\t\tTargeted content distribution is supported")
    \o AppendIf(BitSet(v, 3), "\t\tUEFI is supported")
    \o AppendIf(BitSet(v, 4), "\t\tSystem is a virtual machine")

\* BIOSCharacteristicsExt2.String()
BIOSCharacteristicsExt2String(v) == Join(BIOSCharacteristicsExt2Lines(v), "\n")

----------------------------------------------------------------------------
(* String.                                                                 *)

\* bs < n and bs / 1024, on [hi, lo] pairs (n below 2^31)
LessUint(x, n) == x.hi < n \div Mega \/ (x.hi = n \div Mega /\ x.lo < n % Mega)
Div1024(x) == [hi |-> x.hi \div 1024, lo |-> (x.hi % 1024) * 1024 + x.lo \div 1024]
\* %d of a uint below 2^31
FmtUint(x) == FmtD(x.hi * Mega + x.lo)

\* the address lines computed from 0xFFFF
AddressLines_FFFF(rec) ==
    IF rec.StartingAddressSegment # 0
    THEN << "\tAddress: 0x" \o FmtX4(rec.StartingAddressSegment) \o "0",
            "\tRuntime Size: "
              \o FmtD(((65535 - rec.StartingAddressSegment) * 16) \div 1024)
              \o " kB" >>
    ELSE <<>>

\* the starting address and runtime size lines
AddressLines(rec) ==
    IF rec.StartingAddressSegment # 0
    THEN << "\tAddress: 0x" \o FmtX4(rec.StartingAddressSegment) \o "0",
            "\tRuntime Size: "
              \o FmtD(((65536 - rec.StartingAddressSegment) * 16) \div 1024)
              \o " kB" >>
    ELSE <<>>

\* the unit switch with <= for <
ROMSizeLine_Inclusive(bs) ==
    IF LessUint(bs, 1024 + 1) THEN "\tROM Size: " \o FmtUint(bs)
    ELSE IF LessUint(bs, 1024 * 1024 + 1)
    THEN "\tROM Size: " \o FmtUint(Div1024(bs)) \o " kB"
    ELSE IF LessUint(bs, 1024 * 1024 * 1024 + 1)
    THEN "\tROM Size: " \o FmtUint(Div1024(Div1024(bs))) \o " MB"
    ELSE "\tROM Size: " \o FmtUint(Div1024(Div1024(Div1024(bs)))) \o " GB"

\* the ROM size line: the switch on bs
ROMSizeLine(bs) ==
    IF LessUint(bs, 1024) THEN "\tROM Size: " \o FmtUint(bs)
    ELSE IF LessUint(bs, 1024 * 1024)
    THEN "\tROM Size: " \o FmtUint(Div1024(bs)) \o " kB"
    ELSE IF LessUint(bs, 1024 * 1024 * 1024)
    THEN "\tROM Size: " \o FmtUint(Div1024(Div1024(bs))) \o " MB"
    ELSE "\tROM Size: " \o FmtUint(Div1024(Div1024(Div1024(bs)))) \o " GB"

\* the revision lines gated by the sentinel alone
RevisionLines_NoLenGate(rec) ==
    AppendIf(rec.SystemBIOSMajorRelease # 255,
             "\tBIOS Revision: " \o FmtD(rec.SystemBIOSMajorRelease)
               \o "." \o FmtD(rec.SystemBIOSMinorRelease))
    \o AppendIf(rec.EmbeddedControllerFirmwareMajorRelease # 255,
             "\tFirmware Revision: "
               \o FmtD(rec.EmbeddedControllerFirmwareMajorRelease)
               \o "." \o FmtD(rec.EmbeddedControllerFirmwareMinorRelease))

\* the BIOS and firmware revision lines
RevisionLines(rec) ==
    AppendIf(TableLen(rec.Table) >= 22 /\ rec.SystemBIOSMajorRelease # 255,
             "\tBIOS Revision: " \o FmtD(rec.SystemBIOSMajorRelease)
               \o "." \o FmtD(rec.SystemBIOSMinorRelease))
    \o AppendIf(TableLen(rec.Table) >= 24
                  /\ rec.EmbeddedControllerFirmwareMajorRelease # 255,
             "\tFirmware Revision: "
               \o FmtD(rec.EmbeddedControllerFirmwareMajorRelease)
               \o "." \o FmtD(rec.EmbeddedControllerFirmwareMinorRelease))

\* the slice `lines` of bi.String() as it stands before strings.Join
StringLines(rec, w) ==
    << HeaderString(rec.Table),
       "\tVendor: " \o rec.Vendor,
       "\tVersion: " \o rec.Version,
       "\tRelease Date: " \o rec.ReleaseDate >>
    \o AddressLines(rec)
    \o << ROMSizeLine(GetROMSizeBytes(rec, w)) >>
    \o << "\tCharacteristics:\n" \o BIOSCharacteristicsString(rec.Characteristics),
          BIOSCharacteristicsExt1String(rec.CharacteristicsExt1),
          BIOSCharacteristicsExt2String(rec.CharacteristicsExt2) >>
    \o RevisionLines(rec)

\* bi.String()
String(rec, w) == Join(StringLines(rec, w), "\n")

----------------------------------------------------------------------------
(* The inputs: raw tables.                                                 *)

Lengths == MinLength..MaxLength

\* a little-endian table image: the header, then the fields at 04h..19h
MkTable(type, length, seg, rom, chars, ext1, ext2, bmaj, bmin, emaj, emin, ext) ==
    [Type    |-> type,
     Length  |-> length,
     Handle  |-> 0,
     strings |-> <<"Vendor", "1.0", "01/02/2019">>,
     data    |-> [off \in 4..25 |->
                    CASE off = 4  -> 1
                      [] off = 5  -> 2
                      [] off = 6  -> seg % 256
                      [] off = 7  -> seg \div 256
                      [] off = 8  -> 3
                      [] off = 9  -> rom
                      [] off \in 10..17 -> chars[off - 9]
                      [] off = 18 -> ext1
                      [] off = 19 -> ext2
                      [] off = 20 -> bmaj
                      [] off = 21 -> bmin
                      [] off = 22 -> emaj
                      [] off = 23 -> emin
                      [] off = 24 -> ext % 256
                      [] off = 25 -> ext \div 256]]

NoFlags == [i \in 1..8 |-> 0]

\* values of the characteristics vector: each single bit 0..63, and some mixes
CharacteristicsValues ==
    { [i \in 1..8 |-> IF i = (k \div 8) + 1 THEN Pow2(k % 8) ELSE 0] : k \in 0..63 }
    \cup { NoFlags,
           [i \in 1..8 |-> 255],
           [i \in 1..8 |-> IF i <= 4 THEN 255 ELSE 0],
           [i \in 1..8 |-> IF i <= 4 THEN 0 ELSE 255],
           <<144, 0, 0, 0, 0, 0, 0, 0>>,
           <<3, 0, 0, 0, 0, 0, 0, 0>>,
           <<144, 8, 1, 128, 1, 0, 0, 128>>,
           <<0, 0, 0, 128, 255, 0, 0, 0>> }

ExtendedROMSizeValues ==
    { 0, 1, 16, 1023, 1024, 16383,              \* unit 0: megabytes
      16384, 16385, 16387, 16388, 16400, 32767, \* unit 1: gigabytes
      32768, 32769, 33791, 33792, 49151,        \* unit 2: reserved
      49152, 50175, 50176, 65535 }              \* unit 3: reserved

SegmentValues ==
    { 0, 1, 64, 255, 256, 32768, 57344, 61440, 65471, 65472, 65473, 65535 }

\* tables that vary the type, the length and the revision bytes
TablesRevisions ==
    { MkTable(ty, n, 61440, rom, NoFlags, 1, 1, bmaj, bmin, emaj, 3, 0) :
        ty \in {0, 1}, n \in Lengths, rom \in {16, 255},
        bmaj \in {0, 2, 255}, bmin \in {0, 7}, emaj \in {0, 1, 255} }
    \cup { MkTable(127, n, 0, 0, NoFlags, 0, 0, 255, 255, 255, 255, 0) : n \in Lengths }

\* tables that vary the length and the two ROM size fields
TablesROMSize ==
    { MkTable(0, n, 0, rom, NoFlags, 0, 0, 2, 7, 255, 255, ext) :
        n \in Lengths, rom \in {0, 16, 127, 254, 255}, ext \in ExtendedROMSizeValues }

\* tables that vary one flag vector at a time
TablesFlags ==
    { MkTable(0, n, 0, 16, c, 0, 0, 0, 0, 0, 0, 0) :
        n \in {18, MaxLength}, c \in CharacteristicsValues }
    \cup { MkTable(0, n, 0, 16, NoFlags, e1, 0, 0, 0, 0, 0, 0) :
        n \in {18, 19}, e1 \in 0..255 }
    \cup { MkTable(0, n, 0, 16, NoFlags, 0, e2, 0, 0, 0, 0, 0) :
        n \in {19, 20}, e2 \in 0..255 }

\* tables that vary the starting address segment
TablesSegment ==
    { MkTable(0, n, seg, rom, <<144, 0, 0, 0, 0, 0, 0, 0>>, 1, 8, 2, 7, 1, 3, 16400) :
        n \in {18, 22, MaxLength}, seg \in SegmentValues, rom \in {16, 255} }

----------------------------------------------------------------------------
(* The state machine: one decode or one struct literal, then method calls. *)

NoCall == [op |-> "", num |-> ToUint(0), lines |-> <<>>, text |-> ""]

\* A BIOSInformation a caller writes as a struct literal: the table and every
\* field set, whatever the table's length.
LiteralRecord(tbl) == parseStruct([tbl EXCEPT !.Length = 26], ZeroRecord(tbl))

\* The width of uint matters to GetROMSizeBytes alone: both widths are tried on
\* the tables that vary what it reads.
Init ==
    /\ \/ uintBits \in {32, 64} /\ t \in TablesROMSize \cup TablesSegment
       \/ uintBits = 64 /\ t \in TablesRevisions \cup TablesFlags
    /\ pc = "init"
    /\ bi = NoRecord
    /\ err = ""
    /\ ret = NoCall

\* bi, err := NewBIOSInformation(t)
DoNewBIOSInformation ==
    /\ pc = "init"
    /\ LET r == NewBIOSInformation(t)
       IN  /\ bi' = r.bi
           /\ err' = r.err
           /\ pc' = IF r.err = "" THEN "decoded" ELSE "failed"
    /\ UNCHANGED <<uintBits, t, ret>>

\* bi := &BIOSInformation{Table: *t, ...}
DoLiteral ==
    /\ pc = "init"
    /\ bi' = LiteralRecord(t)
    /\ pc' = "literal"
    /\ UNCHANGED <<uintBits, t, err, ret>>

\* bi.GetROMSizeBytes()
DoGetROMSizeBytes ==
    /\ bi # NoRecord
    /\ ret' = [NoCall EXCEPT !.op = "GetROMSizeBytes",
                             !.num = GetROMSizeBytes(bi, uintBits)]
    /\ UNCHANGED <<uintBits, t, pc, bi, err>>

\* bi.String()
DoString ==
    /\ bi # NoRecord
    /\ ret' = [op    |-> "String",
               num   |-> GetROMSizeBytes(bi, uintBits),
               lines |-> StringLines(bi, uintBits),
               text  |-> String(bi, uintBits)]
    /\ UNCHANGED <<uintBits, t, pc, bi, err>>

\* bi.Characteristics.String()
DoCharacteristicsString ==
    /\ bi # NoRecord
    /\ ret' = [NoCall EXCEPT !.op = "BIOSCharacteristics.String",
                             !.lines = BIOSCharacteristicsLines(bi.Characteristics),
                             !.text = BIOSCharacteristicsString(bi.Characteristics)]
    /\ UNCHANGED <<uintBits, t, pc, bi, err>>

\* bi.CharacteristicsExt1.String()
DoCharacteristicsExt1String ==
    /\ bi # NoRecord
    /\ ret' = [NoCall EXCEPT !.op = "BIOSCharacteristicsExt1.String",
                             !.lines = BIOSCharacteristicsExt1Lines(bi.CharacteristicsExt1),
                             !.text = BIOSCharacteristicsExt1String(bi.CharacteristicsExt1)]
    /\ UNCHANGED <<uintBits, t, pc, bi, err>>

\* bi.CharacteristicsExt2.String()
DoCharacteristicsExt2String ==
    /\ bi # NoRecord
    /\ ret' = [NoCall EXCEPT !.op = "BIOSCharacteristicsExt2.String",
                             !.lines = BIOSCharacteristicsExt2Lines(bi.CharacteristicsExt2),
                             !.text = BIOSCharacteristicsExt2String(bi.CharacteristicsExt2)]
    /\ UNCHANGED <<uintBits, t, pc, bi, err>>

Next ==
    \/ DoNewBIOSInformation
    \/ DoLiteral
    \/ DoGetROMSizeBytes
    \/ DoString
    \/ DoCharacteristicsString
    \/ DoCharacteristicsExt1String
    \/ DoCharacteristicsExt2String

Spec == Init /\ [][Next]_vars

----------------------------------------------------------------------------
(* Vocabulary of the properties.                                           *)

HasPrefix(str, prefix) ==
    Len(str) >= Len(prefix) /\ SubSeq(str, 1, Len(prefix)) = prefix

\* the positions of the lines that start with a prefix
LinesWith(lines, prefix) == { i \in 1..Len(lines) : HasPrefix(lines[i], prefix) }

Decoded == pc \in {"decoded", "failed"}

\* The descriptions of the defined bits, bit 0 first.
CharacteristicsDescriptions ==
    << "\t\tReserved",
       "\t\tReserved",
       "\t\tUnknown",
       "\t\tBIOS characteristics not supported",
       "\t\tISA is supported",
       "\t\tMCA is supported",
       "\t\tEISA is supported",
       "\t\tPCI is supported",
       "\t\tPC Card (PCMCIA) is supported",
       "\t\tPNP is supported",
       "\t\tAPM is supported",
       "\t\tBIOS is upgradeable",
       "\t\tBIOS shadowing is allowed",
       "\t\tVLB is supported",
       "\t\tESCD support is available",
       "\t\tBoot from CD is supported",
       "\t\tSelectable boot is supported",
       "\t\tBIOS ROM is socketed",
       "\t\tBoot from PC Card (PCMCIA) is supported",
       "\t\tEDD is supported",
       "\t\tJapanese floppy for NEC 9800 1.2 MB is supported (int 13h)",
       "\t\tJapanese floppy for Toshiba 1.2 MB is supported (int 13h)",
       "\t\t5.25\"/360 kB floppy services are supported (int 13h)",
       "\t\t5.25\"/1.2 MB floppy services are supported (int 13h)",
       "\t\t3.5\"/720 kB floppy services are supported (int 13h)",
       "\t\t3.5\"/2.88 MB floppy services are supported (int 13h)",
       "\t\tPrint screen service is supported (int 5h)",
       "\t\t8042 keyboard services are supported (int 9h)",
       "\t\tSerial services are supported (int 14h)",
       "\t\tPrinter services are supported (int 17h)",
       "\t\tCGA/mono video services are supported (int 10h)",
       "\t\tNEC PC-98" >>

Ext1Descriptions ==
    << "\t\tACPI is supported",
       "\t\tUSB legacy is supported",
       "\t\tAGP is supported",
       "\t\tI2O boot is supported",
       "\t\tLS-120 boot is supported",
       "\t\tATAPI Zip drive boot is supported",
       "\t\tIEEE 1394 boot is supported",
       "\t\tSmart battery is supported" >>

Ext2Descriptions ==
    << "\t\tBIOS boot specification is supported",
       "\t\tFunction key-initiated network boot is supported",
       "\t\tTargeted content distribution is supported",
       "\t\tUEFI is supported",
       "\t\tSystem is a virtual machine" >>

\* the descriptions descr[k + 1] of the bits k < n that `set` holds, in
\* ascending bit position
RECURSIVE Selected(_, _, _)
Selected(descr, set, n) ==
    IF n = 0 THEN <<>>
    ELSE Selected(descr, set, n - 1)
         \o (IF (n - 1) \in set THEN <<descr[n]>> ELSE <<>>)

\* the set bits of a byte and of 8 little-endian bytes
Bits8(v) == { k \in 0..7 : (v \div Pow2(k)) % 2 = 1 }
Bits64(v) == { k \in 0..63 : (k % 8) \in Bits8(v[(k \div 8) + 1]) }

----------------------------------------------------------------------------
(* C1.                                                                     *)

\* C1, as stated: every raw record whose declared length is below 0x12 makes
\* NewBIOSInformation fail with the truncated-record error and return no record.
C1_AnyTypeTruncated ==
    (Decoded /\ t.Length < 18)
        => (pc = "failed" /\ bi = NoRecord /\ err = "required fields missing")

\* C1, amended: every raw record of type 0 whose declared length is below 0x12
\* makes NewBIOSInformation fail with the truncated-record error and return
\* no record.
C1_Type0Truncated ==
    (Decoded /\ t.Type = 0 /\ t.Length < 18)
        => (pc = "failed" /\ bi = NoRecord /\ err = "required fields missing")

\* C1 witness: a type 0 record of length 0x11 is refused as truncated
C1_Witness ==
    /\ pc = "failed" /\ t.Type = 0 /\ t.Length = 17
    /\ bi = NoRecord /\ err = "required fields missing"

----------------------------------------------------------------------------
(* C2.                                                                     *)

\* C2: every raw record whose type is not 0 makes NewBIOSInformation fail with
\* the wrong-type error and return no record, whatever its declared length.
C2_WrongType ==
    (Decoded /\ t.Type # 0)
        => /\ pc = "failed" /\ bi = NoRecord
           /\ HasPrefix(err, "invalid table type ")
           /\ err # "required fields missing"

\* C2 witness: a type 127 record below 0x12 bytes is refused for its type
C2_Witness ==
    /\ pc = "failed" /\ t.Type = 127 /\ t.Length < 18
    /\ bi = NoRecord /\ err = "invalid table type 127"

----------------------------------------------------------------------------
(* C3.                                                                     *)

\* C3: with ROMSize in 0..0xFE, GetROMSizeBytes returns 65536 * (ROMSize + 1),
\* whatever the record length and ExtendedROMSize: (ROMSize + 1) / 16 whole
\* megabytes and (ROMSize + 1) % 16 times 64 kB.
C3_LegacySize ==
    (ret.op = "GetROMSizeBytes" /\ bi.ROMSize # 255)
        => /\ ret.num = [hi |-> (bi.ROMSize + 1) \div 16,
                          lo |-> ((bi.ROMSize + 1) % 16) * 65536]
           /\ (bi.ROMSize = 0 => ret.num = [hi |-> 0, lo |-> 65536])
           /\ (bi.ROMSize = 16 => ret.num.hi * Mega + ret.num.lo = 1114112)

\* C3 witness: ROMSize 0x10 gives 1,114,112 beside a set ExtendedROMSize
C3_Witness ==
    /\ ret.op = "GetROMSizeBytes" /\ bi.ROMSize = 16
    /\ bi.Table.Length >= 26 /\ bi.ExtendedROMSize = 16400
    /\ ret.num = [hi |-> 1, lo |-> 65536]

----------------------------------------------------------------------------
(* C4.                                                                     *)

\* the byte count C4 states for an extended ROM size x, as a [hi, lo] pair
ExtendedBytes(x) ==
    CASE x \div 16384 = 0 -> [hi |-> x % 16384, lo |-> 0]
      [] x \div 16384 = 1 -> [hi |-> (x % 16384) * 1024, lo |-> 0]
      [] OTHER            -> [hi |-> 0, lo |-> x % 16384]

\* C4: with ROMSize = 0xFF and record length >= 0x1A, GetROMSizeBytes returns
\* (ExtendedROMSize & 0x3FFF) * m, m = 2^20 for unit 0, 2^30 for unit 1 and 1
\* for the reserved units 2 and 3.
C4_ExtendedSize ==
    (ret.op = "GetROMSizeBytes" /\ bi.ROMSize = 255 /\ bi.Table.Length >= 26)
        => ret.num = ExtendedBytes(bi.ExtendedROMSize)

\* C4 in the builds whose uint has 64 bits
C4_ExtendedSize64 == (uintBits = 64) => C4_ExtendedSize

----------------------------------------------------------------------------
(* C5.                                                                     *)

\* C5: with ROMSize = 0xFF and record length < 0x1A, GetROMSizeBytes returns
\* 16,777,216 (16 MB), whatever ExtendedROMSize holds.
C5_Fallback ==
    (ret.op = "GetROMSizeBytes" /\ bi.ROMSize = 255 /\ bi.Table.Length < 26)
        => (ret.num = [hi |-> 16, lo |-> 0] /\ ret.num.hi * Mega = 16777216)

\* C5 witness: a record of length 0x19 whose ExtendedROMSize is 0x4010
C5_Witness ==
    /\ ret.op = "GetROMSizeBytes" /\ pc = "literal"
    /\ bi.ROMSize = 255 /\ bi.Table.Length = 25 /\ bi.ExtendedROMSize = 16400
    /\ ret.num = [hi |-> 16, lo |-> 0]

----------------------------------------------------------------------------
(* C6.                                                                     *)

\* C6: each renderer outputs one description per defined bit that is set, none
\* for the undefined bits (32..63 of the characteristics, 5..7 of extension 2),
\* in ascending bit position, joined by line breaks; no defined bit set gives
\* the empty output; bits 4 and 7 of the characteristics give "ISA is
\* supported" then "PCI is supported".
C6_Rendered ==
    /\ ret.op = "BIOSCharacteristics.String" =>
         /\ ret.lines = Selected(CharacteristicsDescriptions,
                                 Bits64(bi.Characteristics), 32)
         /\ ret.text = Join(ret.lines, "\n")
         /\ (Bits64(bi.Characteristics) \cap (0..31) = {} => ret.text = "")
         /\ (Bits64(bi.Characteristics) = {4, 7} =>
               ret.text = "\t\tISA is supported\n\t\tPCI is supported")
    /\ ret.op = "BIOSCharacteristicsExt1.String" =>
         /\ ret.lines = Selected(Ext1Descriptions, Bits8(bi.CharacteristicsExt1), 8)
         /\ ret.text = Join(ret.lines, "\n")
         /\ (bi.CharacteristicsExt1 = 0 => ret.text = "")
    /\ ret.op = "BIOSCharacteristicsExt2.String" =>
         /\ ret.lines = Selected(Ext2Descriptions, Bits8(bi.CharacteristicsExt2), 5)
         /\ ret.text = Join(ret.lines, "\n")
         /\ (Bits8(bi.CharacteristicsExt2) \cap (0..4) = {} => ret.text = "")

\* C6 witness: bits 4, 7, 11, 16, 31, 32 and 63 of the characteristics
C6_Witness ==
    /\ ret.op = "BIOSCharacteristics.String"
    /\ bi.Characteristics = <<144, 8, 1, 128, 1, 0, 0, 128>>
    /\ ret.lines = << "\t\tISA is supported", "\t\tPCI is supported",
                      "\t\tBIOS is upgradeable", "\t\tSelectable boot is supported",
                      "\t\tNEC PC-98" >>

----------------------------------------------------------------------------
(* C7.                                                                     *)

BIOSRevisionAt == LinesWith(ret.lines, "\tBIOS Revision: ")
FirmwareRevisionAt == LinesWith(ret.lines, "\tFirmware Revision: ")

\* C7: the summary holds the BIOS revision line exactly when the record length
\* is >= 0x16 and SystemBIOSMajorRelease is not 0xFF, and the firmware revision
\* line exactly when the length is >= 0x18 and the EC major is not 0xFF; the
\* BIOS revision line comes first when both are there.
C7_RevisionGating ==
    ret.op = "String" =>
        /\ (BIOSRevisionAt # {}) <=>
             (bi.Table.Length >= 22 /\ bi.SystemBIOSMajorRelease # 255)
        /\ (FirmwareRevisionAt # {}) <=>
             (bi.Table.Length >= 24
                /\ bi.EmbeddedControllerFirmwareMajorRelease # 255)
        /\ Cardinality(BIOSRevisionAt) <= 1
        /\ Cardinality(FirmwareRevisionAt) <= 1
        /\ \A i \in BIOSRevisionAt : \A j \in FirmwareRevisionAt : i < j

\* C7 witness: a decoded record of length 0x15 whose byte at 14h is not the sentinel
C7_Witness ==
    /\ ret.op = "String" /\ pc = "decoded"
    /\ bi.Table.Length = 21 /\ bi.SystemBIOSMajorRelease = 2
    /\ t.data[21] = 7
    /\ BIOSRevisionAt = {}

----------------------------------------------------------------------------
(* C8.                                                                     *)

UnitSuffix == <<"", " kB", " MB", " GB">>

\* bs / 1024^u and bs / 1024^u >= 1, on [hi, lo] pairs
RECURSIVE InUnit(_, _)
InUnit(bs, u) == IF u = 0 THEN bs ELSE Div1024(InUnit(bs, u - 1))
AtLeastOne(x) == x.hi > 0 \/ x.lo >= 1

\* the ROM size line of the summary shows bs in unit u
ShowsIn(bs, u) ==
    \E i \in LinesWith(ret.lines, "\tROM Size: ") :
        ret.lines[i] = "\tROM Size: " \o FmtUint(InUnit(bs, u)) \o UnitSuffix[u + 1]

\* u is the largest unit in which bs shows as at least 1
LargestUnit(bs, u) ==
    /\ AtLeastOne(InUnit(bs, u))
    /\ \A v \in (u + 1)..3 : ~AtLeastOne(InUnit(bs, v))

\* C8, as stated: for every byte count of GetROMSizeBytes, 0 included, the
\* ROM size line shows it in the largest unit among bytes, kB, MB, GB in which
\* the displayed integer is >= 1.
C8_LargestUnitAlways ==
    ret.op = "String" =>
        /\ ret.num = GetROMSizeBytes(bi, uintBits)
        /\ \E u \in 0..3 : LargestUnit(ret.num, u) /\ ShowsIn(ret.num, u)

\* C8, amended: a byte count >= 1 shows in the largest unit in which the
\* displayed integer is >= 1, and the byte count 0 shows as 0 bytes.
C8_LargestUnitOrZero ==
    ret.op = "String" =>
        /\ ret.num = GetROMSizeBytes(bi, uintBits)
        /\ Cardinality(LinesWith(ret.lines, "\tROM Size: ")) = 1
        /\ IF AtLeastOne(ret.num)
           THEN \E u \in 0..3 : LargestUnit(ret.num, u) /\ ShowsIn(ret.num, u)
           ELSE \E i \in 1..Len(ret.lines) : ret.lines[i] = "\tROM Size: 0"

\* C8 witness: the byte count 0 of an extended ROM size of magnitude 0
C8_Witness ==
    /\ ret.op = "String" /\ pc = "decoded" /\ uintBits = 64
    /\ bi.ROMSize = 255 /\ bi.Table.Length >= 26 /\ bi.ExtendedROMSize = 0
    /\ ret.num = [hi |-> 0, lo |-> 0]
    /\ \E i \in 1..Len(ret.lines) : ret.lines[i] = "\tROM Size: 0"

----------------------------------------------------------------------------
(* C9.                                                                     *)

\* the record decoded from the same bytes under another declared length
Redecoded(n) == NewBIOSInformation([t EXCEPT !.Length = n])

\* the typed fields of two records are equal (their tables aside)
SameFields(a, b) == [a EXCEPT !.Table = b.Table] = b

\* the revision lines of a summary, in order
RevisionLinesOf(lines) ==
    SelectSeq(lines, LAMBDA l : \/ HasPrefix(l, "\tBIOS Revision: ")
                                \/ HasPrefix(l, "\tFirmware Revision: "))

\* the record decoded under length n gives the byte count and the revision
\* lines of the call on bi
SameOutput(n) ==
    /\ GetROMSizeBytes(Redecoded(n).bi, uintBits) = ret.num
    /\ ret.op = "String" =>
         RevisionLinesOf(StringLines(Redecoded(n).bi, uintBits))
            = RevisionLinesOf(ret.lines)

\* n and m lie on the same side of each length threshold of the formatter
SameSide(n, m) == \A th \in {22, 24, 26} : (n >= th) <=> (m >= th)

\* C9, as stated: two decoded records with equal typed fields and different
\* declared lengths give the same ROM byte count and the same revision lines.
C9_LengthIgnored ==
    (pc = "decoded" /\ ret.op \in {"GetROMSizeBytes", "String"}) =>
        \A n \in Lengths \ {t.Length} :
            (Redecoded(n).err = "" /\ SameFields(Redecoded(n).bi, bi))
                => SameOutput(n)

\* C9, amended: two decoded records with equal typed fields whose declared
\* lengths lie on the same side of 0x16, of 0x18 and of 0x1A give the same ROM
\* byte count and the same revision lines.
C9_SameSideOfThresholds ==
    (pc = "decoded" /\ ret.op \in {"GetROMSizeBytes", "String"}) =>
        \A n \in Lengths \ {t.Length} :
            (Redecoded(n).err = "" /\ SameFields(Redecoded(n).bi, bi)
               /\ SameSide(n, t.Length))
                => SameOutput(n)

\* C9 witness: a record of length 0x18 using the sentinel, and its twin of length 0x19
C9_Witness ==
    /\ pc = "decoded" /\ ret.op = "GetROMSizeBytes"
    /\ t.Length = 24 /\ bi.ROMSize = 255
    /\ Redecoded(25).err = "" /\ SameFields(Redecoded(25).bi, bi)
    /\ SameSide(25, 24) /\ SameOutput(25)
    /\ ret.num = [hi |-> 16, lo |-> 0]

----------------------------------------------------------------------------
(* C10.                                                                    *)

\* C10: the summary holds the starting address line and the runtime size line,
\* together, after the release date line and before the ROM size line, exactly
\* when StartingAddressSegment is not 0; the runtime size is
\* ((0x10000 - segment) << 4) / 1024 kB, never negative and 0 kB for segments
\* above 0xFFC0.
C10_AddressLines ==
    ret.op = "String" =>
        LET seg == bi.StartingAddressSegment
            kB  == ((65536 - seg) * 16) \div 1024
        IN  /\ HasPrefix(ret.lines[4], "\tRelease Date: ")
            /\ IF seg # 0
               THEN /\ LinesWith(ret.lines, "\tAddress: 0x") = {5}
                    /\ LinesWith(ret.lines, "\tRuntime Size: ") = {6}
                    /\ ret.lines[6] = "\tRuntime Size: " \o FmtD(kB) \o " kB"
                    /\ kB >= 0
                    /\ (seg > 65472 => ret.lines[6] = "\tRuntime Size: 0 kB")
                    /\ (seg <= 65472 => ret.lines[6] # "\tRuntime Size: 0 kB")
                    /\ LinesWith(ret.lines, "\tROM Size: ") = {7}
               ELSE /\ LinesWith(ret.lines, "\tAddress: 0x") = {}
                    /\ LinesWith(ret.lines, "\tRuntime Size: ") = {}
                    /\ LinesWith(ret.lines, "\tROM Size: ") = {5}

\* C10 witness: segment 0xF000 gives the two lines, 64 kB of runtime
C10_Witness ==
    /\ ret.op = "String" /\ bi.StartingAddressSegment = 61440
    /\ ret.lines[5] = "\tAddress: 0xF0000"
    /\ ret.lines[6] = "\tRuntime Size: 64 kB"
    /\ HasPrefix(ret.lines[7], "\tROM Size: ")

====
